---- MODULE Spec2Model ----
(***************************************************************************)
(* Model of bot.py: fetch_news_gemini (retry loop and response parsing)    *)
(* and post_thread (thread publication).  Text is modelled as a sequence   *)
(* of one-character strings, so len, strip, split, startswith and replace  *)
(* are computed as Python computes them.                                   *)
(***************************************************************************)
EXTENDS Integers, Sequences, FiniteSets

VARIABLES gemini_client, fpc, attempt, response, events, stories,
          client, post_stories, ppc, i, prev_id, tweets, log

fvars == <<gemini_client, fpc, attempt, response, events, stories>>
pvars == <<client, post_stories, ppc, i, prev_id, tweets, log>>
vars == <<gemini_client, fpc, attempt, response, events, stories,
          client, post_stories, ppc, i, prev_id, tweets, log>>

(***************************************************************************)
(* Bounds                                                                  *)
(***************************************************************************)
\* chunks in a response text handed to the parser alone
MaxChunks == 6
\* chunks in a response text returned inside the retry loop
MaxRespChunks == 2
\* stories in a batch handed to post_thread
MaxBatch == 5
\* chunks in a response text drawn from the wide pool of chunks
MaxWideChunks == 4

(***************************************************************************)
(* Program constants                                                       *)
(***************************************************************************)
MAX_RETRIES == 3
\* the prompt asks for 5 stories; the accepted prefixes are '1.' .. '5.'
MaxStories == 5
TweetLimit == 280

None == <<"None">>

(***************************************************************************)
(* Python string operations on sequences of characters                     *)
(***************************************************************************)
Whitespace == {" ", "\n"}

RECURSIVE FirstNonWs(_, _)
FirstNonWs(s, k) ==
    IF k > Len(s) THEN k
    ELSE IF s[k] \in Whitespace THEN FirstNonWs(s, k + 1) ELSE k

RECURSIVE LastNonWs(_, _)
LastNonWs(s, k) ==
    IF k < 1 THEN k
    ELSE IF s[k] \in Whitespace THEN LastNonWs(s, k - 1) ELSE k

\* str.strip()
Strip(s) == SubSeq(s, FirstNonWs(s, 1), LastNonWs(s, Len(s)))

\* str.startswith(p)
StartsWith(s, p) == Len(s) >= Len(p) /\ SubSeq(s, 1, Len(p)) = p

MatchAt(s, p, k) == k + Len(p) - 1 <= Len(s) /\ SubSeq(s, k, k + Len(p) - 1) = p

RECURSIVE SplitFrom(_, _, _, _)
SplitFrom(s, sep, start, k) ==
    IF k + Len(sep) - 1 > Len(s) THEN <<SubSeq(s, start, Len(s))>>
    ELSE IF MatchAt(s, sep, k)
         THEN <<SubSeq(s, start, k - 1)>> \o SplitFrom(s, sep, k + Len(sep), k + Len(sep))
         ELSE SplitFrom(s, sep, start, k + 1)

\* str.split(sep)
Split(s, sep) == SplitFrom(s, sep, 1, 1)

RECURSIVE FindFrom(_, _, _)
FindFrom(s, sep, k) ==
    IF k + Len(sep) - 1 > Len(s) THEN 0
    ELSE IF MatchAt(s, sep, k) THEN k ELSE FindFrom(s, sep, k + 1)

\* str.split(sep, 1)
SplitOnce(s, sep) ==
    LET k == FindFrom(s, sep, 1)
    IN  IF k = 0 THEN <<s>>
        ELSE <<SubSeq(s, 1, k - 1), SubSeq(s, k + Len(sep), Len(s))>>

RECURSIVE RemoveFrom(_, _, _)
RemoveFrom(s, p, k) ==
    IF k > Len(s) THEN <<>>
    ELSE IF MatchAt(s, p, k) THEN RemoveFrom(s, p, k + Len(p))
         ELSE <<s[k]>> \o RemoveFrom(s, p, k + 1)

\* str.replace(p, "")
Remove(s, p) == RemoveFrom(s, p, 1)

\* [f(x) for x in seq if x.strip()] with f = strip
RECURSIVE StripNonEmpty(_)
StripNonEmpty(parts) ==
    IF parts = <<>> THEN <<>>
    ELSE LET h == Strip(Head(parts))
         IN  (IF h = <<>> THEN <<>> ELSE <<h>>) \o StripNonEmpty(Tail(parts))

(***************************************************************************)
(* fetch_news_gemini: parsing of the response text (bot.py 100-125)        *)
(***************************************************************************)
NL == <<"\n">>
BlankLine == <<"\n", "\n">>
Dot == <<".">>
SourcePrefix == <<"S", "o", "u", "r", "c", "e", ":">>
LinkPrefix == <<"L", "i", "n", "k", ":">>
\* the default of next(...): "N/A"
EmptyField == <<>>
NotAvailable == <<"N", "/", "A">>
StoryDigits == {"1", "2", "3", "4", "5"}

\* blocks = [b.strip() for b in content.split('\n\n') if b.strip()]
Blocks(content) == StripNonEmpty(Split(content, BlankLine))

\* block.startswith(('1.', '2.', '3.', '4.', '5.'))
StartsWithStoryDigit(block) == block # <<>> /\ block[1] \in StoryDigits
IsStoryBlock(block) == \E d \in StoryDigits : StartsWith(block, <<d, ".">>)

\* lines = [line.strip() for line in block.split('\n') if line.strip()]
Lines(block) == StripNonEmpty(Split(block, NL))

\* next((line.replace(prefix, "").strip() for line in lines
\*       if line.startswith(prefix)), "N/A")
RECURSIVE FirstField(_, _)
FirstField(lines, prefix) ==
    IF lines = <<>> THEN NotAvailable
    ELSE IF StartsWith(Head(lines), prefix) THEN Strip(Remove(Head(lines), prefix))
         ELSE FirstField(Tail(lines), prefix)

\* if len(lines) < 4: continue
FewerThanThree(lines) == Len(lines) < 3
IsMalformed(lines) == Len(lines) < 4

\* the body of the for loop over blocks: the stories one block appends
BlockStories(block) ==
    IF ~IsStoryBlock(block) THEN <<>>
    ELSE LET lines == Lines(block)
         IN  IF IsMalformed(lines) THEN <<>>
             ELSE LET parts == SplitOnce(lines[1], Dot)
                  IN  IF Len(parts) < 2 THEN <<>>   \* IndexError: block skipped
                      ELSE <<[headline |-> Strip(parts[2]),
                              summary  |-> lines[2],
                              source   |-> FirstField(lines, SourcePrefix),
                              link     |-> FirstField(lines, LinkPrefix)]>>

RECURSIVE ParseBlocks(_)
ParseBlocks(blocks) ==
    IF blocks = <<>> THEN <<>>
    ELSE BlockStories(Head(blocks)) \o ParseBlocks(Tail(blocks))

\* the value fetch_news_gemini returns for a non-empty response text
ParseStories(content) == ParseBlocks(Blocks(content))

(***************************************************************************)
(* Response texts: chunks joined by blank lines                            *)
(***************************************************************************)
\* "1. a\nb\nSource: x\nLink: y"
ChunkFull == <<"1", ".", " ", "a", "\n", "b", "\n",
               "S", "o", "u", "r", "c", "e", ":", " ", "x", "\n",
               "L", "i", "n", "k", ":", " ", "y">>
\* "2. c\nd\ne\nf": four lines, no Source: and no Link: line
ChunkPlain == <<"2", ".", " ", "c", "\n", "d", "\n", "e", "\n", "f">>
\* "3.\nb\nSource: x\nLink: y": nothing after the number
ChunkNoHead == <<"3", ".", "\n", "b", "\n",
                 "S", "o", "u", "r", "c", "e", ":", " ", "x", "\n",
                 "L", "i", "n", "k", ":", " ", "y">>
\* "4. g\nh\nLink: y": three lines
ChunkShort == <<"4", ".", " ", "g", "\n", "h", "\n", "L", "i", "n", "k", ":", " ", "y">>
\* "note": commentary
ChunkNote == <<"n", "o", "t", "e">>
\* "10. k\nl\nm\nn": four lines under a number outside 1..5
ChunkTen == <<"1", "0", ".", " ", "k", "\n", "l", "\n", "m", "\n", "n">>

ChunkPool == {ChunkFull, ChunkPlain, ChunkNoHead, ChunkShort, ChunkNote}
WidePool == ChunkPool \cup {ChunkTen}

RECURSIVE JoinChunks(_)
JoinChunks(cs) ==
    IF cs = <<>> THEN <<>>
    ELSE IF Len(cs) = 1 THEN cs[1]
         ELSE cs[1] \o BlankLine \o JoinChunks(Tail(cs))

ChunkSeqs(n) == UNION {[1..k -> ChunkPool] : k \in 1..n}
Texts(n) == {JoinChunks(cs) : cs \in ChunkSeqs(n)}
WideTexts(n) == {JoinChunks(cs) : cs \in UNION {[1..k -> WidePool] : k \in 1..n}}

(***************************************************************************)
(* fetch_news_gemini: the retry loop (bot.py 57-98)                        *)
(***************************************************************************)
\* messages of the exceptions generate_content raises
Overloaded == "503 UNAVAILABLE. The model is overloaded."
ErrorMessages == {Overloaded, "503 Service Unavailable",
                  "401 UNAUTHENTICATED. API key not valid.",
                  "400 INVALID_ARGUMENT"}

\* "503 UNAVAILABLE" in error_message
Has503(msg) == msg \in {Overloaded}

\* wait_time = 2 ** attempt
WaitTwice(a) == 2 * a
WaitTime(a) == 2 ^ a

\* the except branch taken for an error raised at 0-based attempt a
RetryOn503Always(msg, a) == IF Has503(msg) THEN "retry" ELSE "return"
RetryOnAnyError(msg, a) == IF a < MAX_RETRIES - 1 THEN "retry" ELSE "return"
RaiseOnPermanent(msg, a) ==
    IF Has503(msg) /\ a < MAX_RETRIES - 1 THEN "retry"
    ELSE IF Has503(msg) THEN "return" ELSE "raise"
OnError(msg, a) ==
    IF Has503(msg) /\ a < MAX_RETRIES - 1 THEN "retry" ELSE "return"

\* response.text payloads that are falsy: "" and None
EmptyPayloads == {<<>>, None}

CallEvent(a, out, text) == [ev |-> "call", n |-> a, out |-> out, text |-> text]
SleepEvent(secs) == [ev |-> "sleep", n |-> secs, out |-> "", text |-> <<>>]

PostIdle ==
    /\ client = "None" /\ post_stories = <<>> /\ ppc = "idle"
    /\ i = 0 /\ prev_id = 0 /\ tweets = <<>> /\ log = <<>>

FetchInit ==
    /\ gemini_client \in {"ready", "None"}
    /\ fpc = "loop" /\ attempt = 0 /\ response = None
    /\ events = <<>> /\ stories = <<>>
    /\ PostIdle

\* if gemini_client is None: return []
FetchNoClient ==
    /\ fpc = "loop" /\ gemini_client = "None"
    /\ fpc' = "returned" /\ stories' = <<>>
    /\ UNCHANGED <<gemini_client, attempt, response, events>>
    /\ UNCHANGED pvars

CanAttempt == fpc = "loop" /\ gemini_client = "ready" /\ attempt < MAX_RETRIES

\* generate_content returns a non-empty text: break
AttemptText(text) ==
    /\ CanAttempt
    /\ text \notin EmptyPayloads
    /\ events' = Append(events, CallEvent(attempt, "text", text))
    /\ response' = text
    /\ fpc' = "parse"
    /\ UNCHANGED <<gemini_client, attempt, stories>>
    /\ UNCHANGED pvars

\* generate_content returns "" or None: the loop goes to its next iteration,
\* or falls into the for-else after the last one
AttemptEmpty(payload) ==
    /\ CanAttempt
    /\ payload \in EmptyPayloads
    /\ events' = Append(events, CallEvent(attempt, "empty", <<>>))
    /\ response' = payload
    /\ IF attempt + 1 < MAX_RETRIES
       THEN attempt' = attempt + 1 /\ UNCHANGED <<fpc, stories>>
       ELSE fpc' = "returned" /\ stories' = <<>> /\ UNCHANGED attempt
    /\ UNCHANGED gemini_client
    /\ UNCHANGED pvars

\* generate_content raises: except Exception as e
AttemptError(msg) ==
    /\ CanAttempt
    /\ LET out == IF Has503(msg) THEN "transient" ELSE "permanent"
           call == CallEvent(attempt, out, <<>>)
           branch == OnError(msg, attempt)
       IN  \/ /\ branch = "retry"
              /\ events' = events \o <<call, SleepEvent(WaitTime(attempt))>>
              /\ attempt' = attempt + 1
              /\ UNCHANGED <<fpc, stories>>
           \/ /\ branch = "return"
              /\ events' = Append(events, call)
              /\ fpc' = "returned" /\ stories' = <<>>
              /\ UNCHANGED attempt
           \/ /\ branch = "raise"
              /\ events' = Append(events, call)
              /\ fpc' = "raised"
              /\ UNCHANGED <<attempt, stories>>
    /\ UNCHANGED <<gemini_client, response>>
    /\ UNCHANGED pvars

\* content = response.text ... return stories
ParseResponse ==
    /\ fpc = "parse"
    /\ stories' = ParseStories(response)
    /\ fpc' = "returned"
    /\ UNCHANGED <<gemini_client, attempt, response, events>>
    /\ UNCHANGED pvars

\* the steps of the retry loop
FetchLoopStep ==
    \/ FetchNoClient
    \/ \E text \in Texts(MaxRespChunks) : AttemptText(text)
    \/ \E payload \in EmptyPayloads : AttemptEmpty(payload)
    \/ \E msg \in ErrorMessages : AttemptError(msg)

FetchNext == FetchLoopStep \/ ParseResponse

SpecFetch == FetchInit /\ [][FetchNext]_vars

\* the parser alone: the state after a first attempt returned the text
ParseInit ==
    /\ gemini_client = "ready"
    /\ response \in Texts(MaxChunks)
    /\ events = <<CallEvent(0, "text", response)>>
    /\ fpc = "parse" /\ attempt = 0 /\ stories = <<>>
    /\ PostIdle

SpecParse == ParseInit /\ [][ParseResponse]_vars

\* the parser alone on shorter texts of more kinds of chunks
ChunksInit ==
    /\ gemini_client = "ready"
    /\ response \in WideTexts(MaxWideChunks)
    /\ events = <<CallEvent(0, "text", response)>>
    /\ fpc = "parse" /\ attempt = 0 /\ stories = <<>>
    /\ PostIdle

SpecChunks == ChunksInit /\ [][ParseResponse]_vars

(***************************************************************************)
(* post_thread: rendering (bot.py 139-154, 167-176)                        *)
(***************************************************************************)
\* "\U0001F30D Top World News This Hour – " (29 characters)
IntroLabel == <<"U+1F30D", " ", "T", "o", "p", " ", "W", "o", "r", "l", "d", " ",
                "N", "e", "w", "s", " ", "T", "h", "i", "s", " ", "H", "o", "u", "r",
                " ", "U+2013", " ">>
\* datetime.utcnow().strftime('%b %d, %H:%M UTC'): always 17 characters
Timestamp == <<"N", "o", "v", " ", "0", "6", ",", " ", "1", "0", ":", "1", "1", " ",
               "U", "T", "C">>
\* "\U0001F525 1. "
RootMark == <<"U+1F525", " ", "1", ".", " ">>
\* "\U0001F447 "
ReplyMark == <<"U+1F447", " ">>
\* "\U0001F517 "
LinkMark == <<"U+1F517", " ">>
SourceLabel == <<"S", "o", "u", "r", "c", "e", ":", " ">>
\* "\n#WorldNews #Breaking"
RootTags == <<"\n", "#", "W", "o", "r", "l", "d", "N", "e", "w", "s", " ", "#",
              "B", "r", "e", "a", "k", "i", "n", "g">>
\* "\n#NewsUpdate"
ReplyTags == <<"\n", "#", "N", "e", "w", "s", "U", "p", "d", "a", "t", "e">>
\* "Which story do you find most impactful? \U0001F447"
CloserText == <<"W", "h", "i", "c", "h", " ", "s", "t", "o", "r", "y", " ", "d", "o",
                " ", "y", "o", "u", " ", "f", "i", "n", "d", " ", "m", "o", "s", "t",
                " ", "i", "m", "p", "a", "c", "t", "f", "u", "l", "?", " ",
                "U+1F447">>
Ellipsis == <<".", ".", ".">>

DigitChars == <<"0", "1", "2", "3", "4", "5", "6", "7", "8", "9">>

\* str(n) inside an f-string
RECURSIVE DecStr(_)
DecStr(n) ==
    IF n < 10 THEN <<DigitChars[n + 1]>>
    ELSE DecStr(n \div 10) \o <<DigitChars[(n % 10) + 1]>>

Intro == IntroLabel \o Timestamp \o BlankLine

\* the text of the first tweet before truncation
RootText(s) ==
    Intro \o RootMark \o s.headline \o BlankLine \o s.summary \o BlankLine
          \o LinkMark \o s.link \o NL \o SourceLabel \o s.source \o NL \o RootTags

\* reply_text of story number k before truncation
ReplyTextZeroBased(k, s) ==
    ReplyMark \o DecStr(k - 1) \o <<".", " ">> \o s.headline \o BlankLine
              \o s.summary \o BlankLine
              \o LinkMark \o s.link \o NL \o SourceLabel \o s.source \o NL \o ReplyTags
ReplyText(k, s) ==
    ReplyMark \o DecStr(k) \o <<".", " ">> \o s.headline \o BlankLine
              \o s.summary \o BlankLine
              \o LinkMark \o s.link \o NL \o SourceLabel \o s.source \o NL \o ReplyTags

\* if len(text) > 280: text = text[:277] + "..."
TruncateFromLimit(text) ==
    IF Len(text) >= TweetLimit THEN SubSeq(text, 1, TweetLimit - 3) \o Ellipsis
    ELSE text
Truncate(text) ==
    IF Len(text) > TweetLimit THEN SubSeq(text, 1, TweetLimit - 3) \o Ellipsis
    ELSE text

(***************************************************************************)
(* post_thread: the posting run (bot.py 127-191)                           *)
(***************************************************************************)
\* length of the summary of the long story of the pool: with 241 its reply
\* text has 281 characters, one over the limit
LongLen == 241

ShortStory == [headline |-> <<"a">>, summary |-> <<"b">>,
               source |-> <<"x">>, link |-> <<"y">>]
LongStory == [headline |-> <<"c">>, summary |-> [k \in 1..LongLen |-> "z"],
              source |-> NotAvailable, link |-> NotAvailable]
\* the story whose first-tweet text has exactly TweetLimit characters
EdgeStory ==
    LET base == [headline |-> <<"e">>, summary |-> <<>>,
                 source |-> <<"s">>, link |-> <<"l">>]
    IN  [base EXCEPT !.summary = [k \in 1..(TweetLimit - Len(RootText(base))) |-> "w"]]
StoryPool == {ShortStory, LongStory, EdgeStory}

Batches(n) == UNION {[1..k -> StoryPool] : k \in 0..n}

RECURSIVE MaxId(_)
MaxId(sent) ==
    IF sent = <<>> THEN 0
    ELSE LET m == MaxId(Tail(sent))
         IN  IF Head(sent).id > m THEN Head(sent).id ELSE m

\* what one create_tweet call does: the platform answers with a new post id,
\* tweepy raises a TweepyException, or something else is raised
\* (requests.exceptions.ConnectionError is not a TweepyException)
Outcomes(sent) ==
    {[res |-> "posted", id |-> d] : d \in {MaxId(sent) + 1, MaxId(sent) + 2}}
    \cup {[res |-> "TweepyException", id |-> 0], [res |-> "Exception", id |-> 0]}

Tweet(kind, k, text, parent, o) ==
    [kind |-> kind, story |-> k, text |-> text, parent |-> parent,
     res |-> o.res, id |-> o.id]

\* print(f"Posted Tweet {k}: ...") / print(f"Error posting Tweet {k}: ...");
\* the final tweet is entry 0
LogLine(k, status) == [tweet |-> k, status |-> status]

\* prev_id = resp.data.id
KeepAnchor(prev, id) == prev
NextAnchor(prev, id) == id

\* except tweepy.TweepyException around tweet 1: return
FallThroughRootFailure(n) == IF n >= 2 THEN "replies" ELSE "closer"
AfterRootFailure(n) == "returned"

\* except tweepy.TweepyException around reply k of n: break
SkipFailedReply(k, n) ==
    IF k < n THEN [pc |-> "replies", i |-> k + 1] ELSE [pc |-> "closer", i |-> k]
AfterReplyFailure(k, n) == [pc |-> "closer", i |-> k]

FetchIdle ==
    /\ gemini_client = "ready" /\ fpc = "idle" /\ attempt = 0
    /\ response = None /\ events = <<>> /\ stories = <<>>

PostInit ==
    /\ client \in {"ready", "None"}
    /\ post_stories \in Batches(MaxBatch)
    /\ ppc = "start" /\ i = 0 /\ prev_id = 0
    /\ tweets = <<>> /\ log = <<>>
    /\ FetchIdle

\* if not stories: return
PostNothing ==
    /\ ppc = "start" /\ post_stories = <<>>
    /\ ppc' = "returned"
    /\ UNCHANGED <<client, post_stories, i, prev_id, tweets, log>>
    /\ UNCHANGED fvars

\* if client is None: return
PostNoClient ==
    /\ ppc = "start" /\ post_stories # <<>> /\ client = "None"
    /\ ppc' = "returned"
    /\ UNCHANGED <<client, post_stories, i, prev_id, tweets, log>>
    /\ UNCHANGED fvars

\* the two early returns passed: stories is non-empty and client is not None
PostWithoutClient(batch, c) == batch # <<>>
CanPost(batch, c) == batch # <<>> /\ c # "None"

\* tweet 1: render, truncate, client.create_tweet(text=text)
PostRoot(o) ==
    /\ ppc = "start" /\ CanPost(post_stories, client)
    /\ tweets' = Append(tweets,
                        Tweet("root", 1, Truncate(RootText(post_stories[1])), 0, o))
    /\ CASE o.res = "posted" ->
              /\ prev_id' = o.id
              /\ log' = Append(log, LogLine(1, "posted"))
              /\ i' = 2
              /\ ppc' = IF Len(post_stories) >= 2 THEN "replies" ELSE "closer"
         [] o.res = "TweepyException" ->
              /\ log' = Append(log, LogLine(1, "failed"))
              /\ ppc' = AfterRootFailure(Len(post_stories))
              /\ i' = IF AfterRootFailure(Len(post_stories)) = "returned" THEN i ELSE 2
              /\ UNCHANGED prev_id
         [] OTHER ->
              /\ ppc' = "raised"
              /\ UNCHANGED <<i, prev_id, log>>
    /\ UNCHANGED <<client, post_stories>>
    /\ UNCHANGED fvars

\* one iteration of: for i, s in enumerate(stories[1:], 2)
PostReply(o) ==
    /\ ppc = "replies" /\ i <= Len(post_stories)
    /\ tweets' = Append(tweets,
                        Tweet("reply", i, Truncate(ReplyText(i, post_stories[i])),
                              prev_id, o))
    /\ CASE o.res = "posted" ->
              /\ prev_id' = NextAnchor(prev_id, o.id)
              /\ log' = Append(log, LogLine(i, "posted"))
              /\ i' = i + 1
              /\ ppc' = IF i + 1 <= Len(post_stories) THEN "replies" ELSE "closer"
         [] o.res = "TweepyException" ->
              /\ log' = Append(log, LogLine(i, "failed"))
              /\ ppc' = AfterReplyFailure(i, Len(post_stories)).pc
              /\ i' = AfterReplyFailure(i, Len(post_stories)).i
              /\ UNCHANGED prev_id
         [] OTHER ->
              /\ ppc' = "raised"
              /\ UNCHANGED <<i, prev_id, log>>
    /\ UNCHANGED <<client, post_stories>>
    /\ UNCHANGED fvars

\* the final reply: client.create_tweet(text=..., in_reply_to_tweet_id=prev_id)
PostCloser(o) ==
    /\ ppc = "closer"
    /\ tweets' = Append(tweets, Tweet("closer", 0, CloserText, prev_id, o))
    /\ CASE o.res = "posted" ->
              /\ log' = Append(log, LogLine(0, "posted"))
              /\ ppc' = "returned"
         [] o.res = "TweepyException" ->
              /\ log' = Append(log, LogLine(0, "failed"))
              /\ ppc' = "returned"
         [] OTHER ->
              /\ ppc' = "raised"
              /\ UNCHANGED log
    /\ UNCHANGED <<client, post_stories, i, prev_id>>
    /\ UNCHANGED fvars

PostNext ==
    \/ PostNothing
    \/ PostNoClient
    \/ \E o \in Outcomes(tweets) : PostRoot(o)
    \/ \E o \in Outcomes(tweets) : PostReply(o)
    \/ \E o \in Outcomes(tweets) : PostCloser(o)

SpecPost == PostInit /\ [][PostNext]_vars

(***************************************************************************)
(* The run: stories = fetch_news_gemini(); post_thread(stories)            *)
(* (bot.py 194-202)                                                        *)
(***************************************************************************)
MainInit ==
    /\ gemini_client \in {"ready", "None"}
    /\ fpc = "loop" /\ attempt = 0 /\ response = None
    /\ events = <<>> /\ stories = <<>>
    /\ client \in {"ready", "None"}
    /\ post_stories = <<>> /\ ppc = "idle"
    /\ i = 0 /\ prev_id = 0 /\ tweets = <<>> /\ log = <<>>

\* post_thread(stories)
CallPostThread ==
    /\ fpc = "returned" /\ ppc = "idle"
    /\ post_stories' = stories
    /\ ppc' = "start"
    /\ UNCHANGED <<client, i, prev_id, tweets, log>>
    /\ UNCHANGED fvars

MainNext == FetchNext \/ CallPostThread \/ PostNext

SpecMain == MainInit /\ [][MainNext]_vars

(***************************************************************************)
(* Properties of post_thread                                               *)
(***************************************************************************)
IsFailedReply(k) ==
    /\ k \in 1..Len(tweets)
    /\ tweets[k].kind = "reply"
    /\ tweets[k].res # "posted"

\* C1: when the reply of a story fails with a provider error, the run makes
\* no posting call after the failed one (in particular no closer).
C1_NoCallAfterFailedReply ==
    \A k \in 1..Len(tweets) :
        (tweets[k].kind = "reply" /\ tweets[k].res = "TweepyException")
            => k = Len(tweets)

\* C2: once the submission of the story at position k >= 2 fails, no story
\* at a later position is ever submitted, and the posts of positions 1..k-1
\* are all posted and logged as posted.
C2_StopOnFirstFailure ==
    \A k \in 1..Len(tweets) :
        IsFailedReply(k) =>
            /\ \A j \in (k + 1)..Len(tweets) : tweets[j].kind = "closer"
            /\ \A j \in 1..(k - 1) :
                   /\ tweets[j].story = j
                   /\ tweets[j].res = "posted"
                   /\ log[j] = LogLine(j, "posted")
            /\ tweets[k].story = k

C2_Witness ==
    /\ ppc = "returned"
    /\ IsFailedReply(3)
    /\ Len(post_stories) = 5

\* C3: when the root submission fails, the run issues no further posting
\* call, and when post_thread returns its log holds exactly one entry, the
\* failure of tweet 1.
C3_RootFailureStops ==
    (tweets # <<>> /\ tweets[1].res # "posted") =>
        /\ Len(tweets) = 1
        /\ ppc \in {"returned", "raised"}
        /\ ppc = "returned" => log = <<LogLine(1, "failed")>>

C3_Witness ==
    /\ ppc = "returned"
    /\ Len(post_stories) >= 2
    /\ Len(tweets) = 1
    /\ tweets[1].res = "TweepyException"

\* C4: the root is submitted without a parent, and the parent of every
\* reply (story reply or closer) is the id returned by the most recent
\* successful submission of the run.
C4_ParentIsLatestSuccess ==
    \A k \in 1..Len(tweets) :
        IF tweets[k].kind = "root" THEN k = 1 /\ tweets[k].parent = 0
        ELSE \E j \in 1..(k - 1) :
                /\ tweets[j].res = "posted"
                /\ tweets[k].parent = tweets[j].id
                /\ \A m \in (j + 1)..(k - 1) : tweets[m].res # "posted"

C4_Witness ==
    /\ Len(tweets) >= 4
    /\ tweets[3].res = "posted"
    /\ tweets[4].kind = "reply"
    /\ tweets[4].parent = tweets[3].id
    /\ tweets[4].parent # tweets[1].id

\* C11: post_thread completes normally whatever a posting call raises: no
\* fault propagates out of it.
C11_NoFaultEscapes == ppc # "raised"

LastPostedStory(k) ==
    CHOOSE j \in 0..(k - 1) :
        /\ j > 0 => (tweets[j].kind # "closer" /\ tweets[j].res = "posted")
        /\ \A m \in (j + 1)..(k - 1) :
               ~(tweets[m].kind # "closer" /\ tweets[m].res = "posted")

C12_CloserAnchored ==
    \A k \in 1..Len(tweets) :
        tweets[k].kind = "closer" =>
            /\ k = Len(tweets)
            /\ ppc \in {"returned", "raised"}
            /\ LastPostedStory(k) > 0
            /\ tweets[k].parent = tweets[LastPostedStory(k)].id

C12_CloserFrame ==
    ppc = "closer" =>
        /\ Len(tweets') = Len(tweets) + 1
        /\ SubSeq(tweets', 1, Len(tweets)) = tweets
        /\ SubSeq(log', 1, Len(log)) = log

\* C12: a closer is submitted only after a story post succeeded, at most
\* once and as the last call of the run, with the id of the last posted
\* story as parent; the closer step leaves every earlier call and log entry
\* as it was.
C12_CloserOnce == []C12_CloserAnchored /\ [][C12_CloserFrame]_vars

C12_Witness ==
    /\ ppc = "returned"
    /\ Len(tweets) = 3
    /\ tweets[2].res = "TweepyException"
    /\ tweets[3].kind = "closer"
    /\ tweets[3].res = "TweepyException"
    /\ log[1] = LogLine(1, "posted")

\* C13: with an empty batch or without a posting client no posting call is
\* made and nothing is logged: post_thread returns with tweets still empty.
C13_NoCallWithoutInput ==
    (post_stories = <<>> \/ client = "None") =>
        /\ tweets = <<>>
        /\ log = <<>>
        /\ ppc \in {"start", "returned"}

C13_Witness ==
    /\ ppc = "returned"
    /\ client = "None"
    /\ Len(post_stories) = 2
    /\ tweets = <<>>

AllPosted == \A k \in 1..Len(tweets) : tweets[k].res = "posted"

\* C14: when every call succeeds, the calls are the root of story 1, the
\* replies of stories 2..n in ascending order and the closer, each reply
\* carrying the id the call before it returned; the run ends after exactly
\* n + 1 calls.
C14_OrderedSubmissions ==
    LET n == Len(post_stories)
    IN  AllPosted =>
            /\ Len(tweets) <= n + 1
            /\ \A k \in 1..Len(tweets) :
                   IF k = 1
                   THEN tweets[k].kind = "root" /\ tweets[k].story = 1
                        /\ tweets[k].parent = 0
                   ELSE /\ tweets[k].parent = tweets[k - 1].id
                        /\ IF k <= n
                           THEN tweets[k].kind = "reply" /\ tweets[k].story = k
                           ELSE tweets[k].kind = "closer"
            /\ (ppc = "returned" /\ n >= 1 /\ client # "None")
                   => Len(tweets) = n + 1

C14_Witness ==
    /\ ppc = "returned"
    /\ AllPosted
    /\ Len(post_stories) = MaxStories
    /\ Len(tweets) = MaxStories + 1

\* the text of story tweet t before truncation
Rendered(t) ==
    IF t.kind = "root" THEN RootText(post_stories[t.story])
    ELSE ReplyText(t.story, post_stories[t.story])

\* C16: a submitted story text whose rendering is longer than 280 characters
\* has exactly 280 characters, the first 277 of the rendering followed by
\* "..."; a rendering of at most 280 characters is submitted unchanged.
C16_TruncationLaw ==
    \A k \in 1..Len(tweets) :
        tweets[k].kind # "closer" =>
            LET r == Rendered(tweets[k])
                text == tweets[k].text
            IN  /\ Len(text) <= 280
                /\ IF Len(r) > 280
                   THEN /\ Len(text) = 280
                        /\ SubSeq(text, 1, 277) = SubSeq(r, 1, 277)
                        /\ SubSeq(text, 278, 280) = <<".", ".", ".">>
                   ELSE text = r

C16_Witness ==
    /\ Len(tweets) >= 2
    /\ tweets[2].kind = "reply"
    /\ Len(Rendered(tweets[1])) = 280
    /\ tweets[1].text = Rendered(tweets[1])
    /\ Len(Rendered(tweets[2])) > 280
    /\ Len(tweets[2].text) = 280
    /\ tweets[2].text[280] = "."

(***************************************************************************)
(* Properties of fetch_news_gemini                                         *)
(***************************************************************************)
\* C5: the returned batch has at most MaxStories stories.
C5_AtMostMaxStories ==
    fpc = "returned" => Len(stories) <= MaxStories

\* C6: no returned story has an empty headline.
C6_NoEmptyHeadline ==
    fpc = "returned" => \A k \in 1..Len(stories) : stories[k].headline # <<>>

\* The chunks of the response as the upstream wrote them, and what the
\* documented chunk grammar says of one chunk.
RawChunks(text) == Split(text, BlankLine)

HasText(line) == \E k \in 1..Len(line) : line[k] \notin Whitespace

NonEmptyLineCount(chunk) == Len(SelectSeq(Split(chunk, NL), HasText))

RECURSIVE DigitRun(_, _)
DigitRun(s, k) ==
    IF k <= Len(s) /\ (\E d \in 1..10 : DigitChars[d] = s[k])
    THEN DigitRun(s, k + 1) ELSE k - 1

DigitValue(c) == (CHOOSE d \in 1..10 : DigitChars[d] = c) - 1

RECURSIVE Number(_, _)
Number(s, n) ==
    IF n = 0 THEN 0 ELSE 10 * Number(s, n - 1) + DigitValue(s[n])

\* the first non-blank line begins with an integer of 1..MaxStories and a period
IsCandidate(chunk) ==
    LET t == Strip(chunk)
        n == DigitRun(t, 1)
    IN  /\ n >= 1 /\ n < Len(t)
        /\ t[n + 1] = "."
        /\ Number(t, n) \in 1..MaxStories

HasLineWith(chunk, prefix) ==
    \E k \in 1..Len(Split(chunk, NL)) : StartsWith(Strip(Split(chunk, NL)[k]), prefix)

IsWellFormed(chunk) == IsCandidate(chunk) /\ NonEmptyLineCount(chunk) >= 4

IsShortCandidate(chunk) == IsCandidate(chunk) /\ NonEmptyLineCount(chunk) < 4

HasFourLines(chunk) == NonEmptyLineCount(chunk) >= 4

RECURSIVE ConcatParse(_)
ConcatParse(chunks) ==
    IF chunks = <<>> THEN <<>>
    ELSE ParseStories(Head(chunks)) \o ConcatParse(Tail(chunks))

\* C15: the batch is the stories of the chunks with at least 4 non-empty
\* lines, in chunk order, and it is the batch of the text without its
\* candidate chunks of fewer than 4 non-empty lines.
C15_ShortChunksDropped ==
    fpc = "returned" =>
        LET raw == RawChunks(response)
        IN  /\ stories = ConcatParse(SelectSeq(raw, HasFourLines))
            /\ stories = ParseStories(JoinChunks(
                             SelectSeq(raw, LAMBDA c : ~IsShortCandidate(c))))

C15_Witness ==
    /\ fpc = "returned"
    /\ RawChunks(response) = <<ChunkFull, ChunkShort, ChunkPlain>>
    /\ Len(stories) = 2
    /\ stories[2].headline = <<"c">>

SentinelOf(chunk, prefix, field, sentinel) ==
    ~HasLineWith(chunk, prefix) => field = sentinel

C19_NonMatchingIgnored ==
    fpc = "returned" =>
        LET raw == RawChunks(response)
        IN  /\ stories = ParseStories(JoinChunks(SelectSeq(raw, IsCandidate)))
            /\ stories = ConcatParse(raw)

C19_Witness ==
    /\ fpc = "returned"
    /\ RawChunks(response) = <<ChunkNote, ChunkPlain, ChunkTen, ChunkFull>>
    /\ Len(stories) = 2
    /\ stories[1].headline = <<"c">>
    /\ stories[2].headline = <<"a">>

\* C7: an attempt that returns an empty payload is followed, before the next
\* attempt, by the backoff delay a transient error at that attempt gets.
C7_EmptyHandledAsTransient ==
    \A k \in 1..(Len(events) - 1) :
        (events[k].ev = "call" /\ events[k].out \in {"empty", "transient"})
            => events[k + 1] = SleepEvent(2 ^ events[k].n)

Calls == SelectSeq(events, LAMBDA e : e.ev = "call")

TwoTransientThenText ==
    /\ Len(Calls) >= 3
    /\ Calls[1].out = "transient"
    /\ Calls[2].out = "transient"
    /\ Calls[3].out = "text"

\* C8: transient failures on attempts 1 and 2 and a text on attempt 3 give
\* exactly three calls and the two sleeps 1 then 2, each between a failed
\* attempt and the next one, and the run returns the parse of the third
\* response.
C8_TwoBackoffsThenParse ==
    TwoTransientThenText =>
        /\ events = <<CallEvent(0, "transient", <<>>), SleepEvent(1),
                      CallEvent(1, "transient", <<>>), SleepEvent(2),
                      CallEvent(2, "text", events[5].text)>>
        /\ fpc \in {"parse", "returned"}
        /\ fpc = "returned" => stories = ParseStories(events[5].text)

C8_Witness ==
    /\ TwoTransientThenText
    /\ fpc = "returned"
    /\ Len(stories) = 2

\* C9: a permanent failure is the last event of the run: no call and no
\* sleep follows it, and the run has returned the empty batch.
C9_PermanentShortCircuits ==
    \A k \in 1..Len(events) :
        (events[k].ev = "call" /\ events[k].out = "permanent") =>
            /\ k = Len(events)
            /\ fpc = "returned"
            /\ stories = <<>>

C9_Witness ==
    /\ Len(events) = 3
    /\ events[1].out = "transient"
    /\ events[3] = CallEvent(1, "permanent", <<>>)
    /\ fpc = "returned"

\* Scheduling: the code is one synchronous thread, so a call that returns
\* and a sleep that ends are followed by the next statement.  The parsing
\* step is the only step out of fpc = "parse"; its fairness is stated on
\* that change of position.
ParseReturns == fpc = "parse" /\ fpc' = "returned"
SpecFetchLive == SpecFetch /\ WF_vars(FetchLoopStep) /\ WF_fpc(ParseReturns)

C10_Bounded ==
    /\ Len(Calls) <= MAX_RETRIES
    /\ fpc # "raised"
    /\ (fpc = "returned" /\ \A k \in 1..Len(Calls) : Calls[k].out # "text")
           => stories = <<>>

\* C10: whatever the upstream outcomes, the run makes at most MAX_RETRIES
\* calls, never raises, returns, and returns the empty batch when no attempt
\* produced a text.
C10_TerminatesWithBatch == []C10_Bounded /\ <>(fpc = "returned")

C10_Witness ==
    /\ fpc = "returned"
    /\ Len(Calls) = MAX_RETRIES
    /\ \E k \in 1..Len(Calls) : Calls[k].out = "transient"
    /\ \E k \in 1..Len(Calls) : Calls[k].out = "empty"
    /\ \A k \in 1..Len(Calls) : Calls[k].out # "text"

RECURSIVE SumOfSleeps(_)
SumOfSleeps(evs) ==
    IF evs = <<>> THEN 0
    ELSE (IF Head(evs).ev = "sleep" THEN Head(evs).n ELSE 0) + SumOfSleeps(Tail(evs))

SleepCount == Len(SelectSeq(events, LAMBDA e : e.ev = "sleep"))

\* delay after a transient failure at 0-based attempts 0 and 1
BackoffTable == <<1, 2>>

FromNumber(t) ==
    LET start == IF t.kind = "root" THEN Len(IntroLabel) + Len(Timestamp) + 5 ELSE 3
    IN  SubSeq(t.text, start, Len(t.text))

RenderedRank(t) == Number(FromNumber(t), DigitRun(FromNumber(t), 1))

RenderedHeadline(t, len) ==
    LET tail == FromNumber(t)
        n == DigitRun(tail, 1)
    IN  IF SubSeq(tail, n + 1, n + 2) = <<".", " ">>
        THEN SubSeq(tail, n + 3, n + 2 + len) ELSE <<>>

\* C18: the story tweets of a thread are the stories of the parsed batch in
\* order, and the number rendered in the k-th of them is k: 1, 2, ..., m
\* without gap or repeat, whatever numbers the upstream chunks carried.
C18_RanksArePositions ==
    \A k \in 1..Len(tweets) :
        tweets[k].kind # "closer" =>
            /\ k <= Len(stories)
            /\ DigitRun(FromNumber(tweets[k]), 1) >= 1
            /\ RenderedRank(tweets[k]) = k
            /\ RenderedHeadline(tweets[k], Len(stories[k].headline))
                   = stories[k].headline

C18_Witness ==
    /\ RawChunks(response) = <<ChunkPlain, ChunkFull>>
    /\ Len(tweets) >= 2
    /\ tweets[2].kind = "reply"
    /\ RenderedRank(tweets[1]) = 1
    /\ RenderedHeadline(tweets[1], 1) = <<"c">>
    /\ RenderedRank(tweets[2]) = 2
    /\ RenderedHeadline(tweets[2], 1) = <<"a">>

====
